---------------------------- MODULE Spec2Model ----------------------------
(***************************************************************************)
(* Model of featureExtract.py: the GENIA -> CRF++ feature extraction       *)
(* script.  Strings are TLA+ strings; a character is a string of length 1. *)
(* The input file is a sequence of lines, the output file is the string of *)
(* everything written to it so far.                                        *)
(***************************************************************************)
EXTENDS Integers, Sequences, FiniteSets, TLC

VARIABLES
    inFileGenia,    \* the lines of the input file, in order
    pos,            \* number of lines the for loop has consumed
    oFileTrain,     \* everything written to the output file so far
    sentenceList,   \* tokens of the sentence being accumulated
    IOBList,        \* labels of the sentence being accumulated
    tempList,       \* features of the token being written
    POSTagsList,    \* tags of the last sentence handed to the tagger
    i,              \* index of the token being written (0-based, as in the code)
    numSentences,   \* counter of sentences processed
    pc              \* "running", "done" (files closed) or "crashed" (uncaught IndexError)

vars == <<inFileGenia, pos, oFileTrain, sentenceList, IOBList, tempList,
          POSTagsList, i, numSentences, pc>>

-----------------------------------------------------------------------------
(* Characters and the character classes of the regular expressions used.   *)

CharAt(s, k) == SubSeq(s, k, k)

UpperLetters == "ABCDEFGHIJKLMNOPQRSTUVWXYZ"
LowerLetters == "abcdefghijklmnopqrstuvwxyz"
DigitChars == "0123456789"

CharsOf(s) == {CharAt(s, k) : k \in 1..Len(s)}

\* [A-Z], [a-z], [0-9]
UpperClass == CharsOf(UpperLetters)
LowerClass == CharsOf(LowerLetters)
DigitClass == CharsOf(DigitChars)

\* \w without re.UNICODE or re.LOCALE: [a-zA-Z0-9_]
WordClass == UpperClass \cup LowerClass \cup DigitClass \cup {"_"}

\* whitespace on which str.split() splits
Whitespace == {" ", "\t", "\n", "\r", "\f"}

\* re.IGNORECASE on a byte string: ASCII letters compare equal to their other case
LowerChar(c) ==
    IF c \in UpperClass
    THEN CharAt(LowerLetters, CHOOSE k \in 1..Len(UpperLetters) : CharAt(UpperLetters, k) = c)
    ELSE c

RECURSIVE LowerStr(_)
LowerStr(s) == IF s = "" THEN "" ELSE LowerChar(CharAt(s, 1)) \o LowerStr(Tail(s))

\* re.search of a literal (no operators) in token: the literal occurs somewhere
Search(lit, token) ==
    \E k \in 1..(Len(token) - Len(lit) + 1) : SubSeq(token, k, k + Len(lit) - 1) = lit

\* re.search of an alternation lit1|lit2|... of literals
SearchAlt(alts, token) == \E lit \in alts : Search(lit, token)

\* re.search of an alternation of lower-case literals with flags = re.IGNORECASE
SearchAltIgnoreCase(alts, token) == SearchAlt(alts, LowerStr(token))

\* re.search of a character class: some character of token is in the class
SearchClass(cls, token) == \E k \in 1..Len(token) : CharAt(token, k) \in cls

\* re.sub(class, rep, s): every character of the class replaced by rep
RECURSIVE SubClass(_, _, _)
SubClass(cls, rep, s) ==
    IF s = "" THEN ""
    ELSE (IF CharAt(s, 1) \in cls THEN rep ELSE CharAt(s, 1)) \o SubClass(cls, rep, Tail(s))

\* re.sub('\W', rep, s): every character outside \w replaced by rep
RECURSIVE SubNonWord(_, _)
SubNonWord(rep, s) ==
    IF s = "" THEN ""
    ELSE (IF CharAt(s, 1) \notin WordClass THEN rep ELSE CharAt(s, 1)) \o SubNonWord(rep, Tail(s))

\* length of the run of character c at the start of s
RECURSIVE LeadingRun(_, _)
LeadingRun(c, s) ==
    IF s # "" /\ CharAt(s, 1) = c THEN 1 + LeadingRun(c, Tail(s)) ELSE 0

\* re.sub of the pattern "at least least times the character c" (c...c+) by rep:
\* leftmost, greedy, non-overlapping matches
RECURSIVE SubRuns(_, _, _, _)
SubRuns(c, least, rep, s) ==
    IF s = "" THEN ""
    ELSE LET n == LeadingRun(c, s)
         IN  IF n >= least
             THEN rep \o SubRuns(c, least, rep, SubSeq(s, n + 1, Len(s)))
             ELSE CharAt(s, 1) \o SubRuns(c, least, rep, Tail(s))

\* str.split(): the maximal runs of non-whitespace characters, in order
RECURSIVE SplitFrom(_, _)
SplitFrom(s, cur) ==
    IF s = ""
    THEN IF cur = "" THEN <<>> ELSE <<cur>>
    ELSE IF CharAt(s, 1) \in Whitespace
         THEN (IF cur = "" THEN <<>> ELSE <<cur>>) \o SplitFrom(Tail(s), "")
         ELSE SplitFrom(Tail(s), cur \o CharAt(s, 1))

Split(line) == SplitFrom(line, "")

Bool(b) == IF b THEN 1 ELSE 0

-----------------------------------------------------------------------------
(* Orthographic features.                                                  *)

getHyphenBool(token) == Bool(Search("-", token))
getCommaBool(token) == Bool(Search(",", token))
getCapLetterBool(token) == Bool(SearchClass(UpperClass, token))
getNumberBool(token) == Bool(SearchClass(DigitClass, token))
getBackslashBool(token) == Bool(Search("\\", token))
getColonBool(token) == Bool(Search(":", token))
getSemiColonBool(token) == Bool(Search(";", token))
getBracketBool(token) == Bool(Search("[", token) \/ Search("]", token))
getParenBool(token) == Bool(Search("(", token) \/ Search(")", token))

(* Word shape.                                                             *)

\* the collapse applied before the lower-case letters are rewritten
getWordShape_collapseFirst(token) ==
    LET s1 == SubClass(UpperClass, "A", token)
        s2 == SubRuns("a", 4, "aaa", s1)
        s3 == SubClass(LowerClass, "a", s2)
        s4 == SubClass(DigitClass, "d", s3)
    IN  SubNonWord("_", s4)

\* the pattern 'aaaaa+' in place of 'aaaa+'
getWordShape_runOfFive(token) ==
    LET s1 == SubClass(UpperClass, "A", token)
        s2 == SubClass(LowerClass, "a", s1)
        s3 == SubRuns("a", 5, "aaa", s2)
        s4 == SubClass(DigitClass, "d", s3)
    IN  SubNonWord("_", s4)

getWordShape(token) ==
    LET s1 == SubClass(UpperClass, "A", token)
        s2 == SubClass(LowerClass, "a", s1)
        s3 == SubRuns("a", 4, "aaa", s2)
        s4 == SubClass(DigitClass, "d", s3)
    IN  SubNonWord("_", s4)

(* Lexical features.                                                       *)

GreekTerms == {"alpha", "beta", "gamma", "delta", "epsilon", "zeta", "theta", "kappa", "lambda"}
CommonTerms == {"prot", "mono", "nucle", "integr", "macro", "il-"}

getGreekLetterBool(token) == Bool(SearchAltIgnoreCase(GreekTerms, token))
getRNABool(token) == Bool(SearchAltIgnoreCase({"rna"}, token))
getCellBool(token) == Bool(SearchAltIgnoreCase({"cell"}, token))
getGeneBool(token) == Bool(SearchAltIgnoreCase({"gene"}, token))
getJurkatBool(token) == Bool(SearchAltIgnoreCase({"jurkat"}, token))
getTranscriptBool(token) == Bool(SearchAltIgnoreCase({"transcript"}, token))
getFactorBool(token) == Bool(SearchAltIgnoreCase({"factor"}, token))
getCommonStringBool(token) == Bool(SearchAltIgnoreCase(CommonTerms, token))

AnyLexTerms ==
    {"alpha", "beta", "gamma", "delta", "epsilon", "zeta", "theta", "kappa", "lambda",
     "rna", "cell", "gene", "jurkat", "transcript", "factor",
     "prot", "mono", "nucle", "integr", "macro", "il-"}

getAnyLexBool_caseSensitive(token) == Bool(SearchAlt(AnyLexTerms, token))

getAnyLexBool(token) == Bool(SearchAltIgnoreCase(AnyLexTerms, token))

(* Is the token a capital letter by itself?                                *)

getCapLetterByselfBool(token) ==
    Bool(Len(token) = 1 /\ token # "" /\ CharAt(token, 1) \in UpperClass)

-----------------------------------------------------------------------------
(* Python values held in tempList: strings and ints, and "%s" % item.      *)

PyStr(s) == [str |-> s]
PyInt(n) == [int |-> n]

RECURSIVE DecimalStr(_)
DecimalStr(n) ==
    IF n < 10 THEN CharAt(DigitChars, n + 1)
    ELSE DecimalStr(n \div 10) \o CharAt(DigitChars, (n % 10) + 1)

\* "%s" % item
Format(item) == IF "int" \in DOMAIN item THEN DecimalStr(item.int) ELSE item.str

-----------------------------------------------------------------------------
(* The external tagger.  nltk.pos_tag returns one (token, tag) pair per    *)
(* token; which tag it picks is not decided by this program.               *)

TagSet == {"NN", "CD"}

nltk_pos_tag(tokens) ==
    {[k \in 1..Len(tokens) |-> <<tokens[k], f[k]>>] : f \in [1..Len(tokens) -> TagSet]}

\* A tagger that breaks that contract: any number of pairs from 0 to one more
\* than the number of tokens.
unaligned_pos_tag(tokens) ==
    UNION {{[k \in 1..n |-> <<IF k <= Len(tokens) THEN tokens[k] ELSE "", f[k]>>] :
                f \in [1..n -> TagSet]} : n \in 0..(Len(tokens) + 1)}

\* getPOSTags, after the call of the tagger: the tags taken out of the pairs
getPOSTags(POSTagsTuple) == [k \in 1..Len(POSTagsTuple) |-> POSTagsTuple[k][2]]

-----------------------------------------------------------------------------
(* The per-token loop of the boundary branch.                              *)

\* the 22 values appended to tempList before the label
FeatureList_noAnyLex(token, posTag) ==
    <<PyStr(token), PyStr(posTag),
      PyInt(getHyphenBool(token)), PyInt(getCommaBool(token)),
      PyInt(getCapLetterBool(token)), PyInt(getNumberBool(token)),
      PyInt(getBackslashBool(token)), PyInt(getColonBool(token)),
      PyInt(getSemiColonBool(token)), PyInt(getBracketBool(token)),
      PyInt(getParenBool(token)),
      PyStr(getWordShape(token)),
      PyInt(getGreekLetterBool(token)), PyInt(getRNABool(token)),
      PyInt(getCellBool(token)), PyInt(getGeneBool(token)),
      PyInt(getJurkatBool(token)), PyInt(getTranscriptBool(token)),
      PyInt(getFactorBool(token)), PyInt(getCommonStringBool(token)),
      PyInt(getCapLetterByselfBool(token))>>

FeatureList(token, posTag) ==
    <<PyStr(token), PyStr(posTag),
      PyInt(getHyphenBool(token)), PyInt(getCommaBool(token)),
      PyInt(getCapLetterBool(token)), PyInt(getNumberBool(token)),
      PyInt(getBackslashBool(token)), PyInt(getColonBool(token)),
      PyInt(getSemiColonBool(token)), PyInt(getBracketBool(token)),
      PyInt(getParenBool(token)),
      PyStr(getWordShape(token)),
      PyInt(getGreekLetterBool(token)), PyInt(getRNABool(token)),
      PyInt(getCellBool(token)), PyInt(getGeneBool(token)),
      PyInt(getJurkatBool(token)), PyInt(getTranscriptBool(token)),
      PyInt(getFactorBool(token)), PyInt(getCommonStringBool(token)),
      PyInt(getAnyLexBool(token)),
      PyInt(getCapLetterByselfBool(token))>>

\* for item in tempList[:-1]: write("%s\t" % item)
RECURSIVE WriteItems(_)
WriteItems(items) ==
    IF items = <<>> THEN ""
    ELSE Format(Head(items)) \o "\t" \o WriteItems(Tail(items))

\* what the three writes of one token put in the file
WriteTokenLine(tl) ==
    WriteItems(SubSeq(tl, 1, Len(tl) - 1)) \o tl[Len(tl)].str \o "\n"

\* The loop "for token in sentenceList" from index k on, with the file holding
\* out and tempList holding tl.  POSTagsList[i] and IOBList[i] raise IndexError
\* past the end of their list: the run ends there, with what was written and
\* appended so far.
RECURSIVE TokenLoop_firstLabel(_, _, _, _, _, _)
TokenLoop_firstLabel(tokens, tags, labels, k, out, tl) ==
    IF k >= Len(tokens)
    THEN [crashed |-> FALSE, out |-> out, tempList |-> tl, i |-> k]
    ELSE IF k >= Len(tags)
    THEN [crashed |-> TRUE, out |-> out,
          tempList |-> Append(tl, PyStr(tokens[k + 1])), i |-> k]
    ELSE IF k >= Len(labels)
    THEN [crashed |-> TRUE, out |-> out,
          tempList |-> tl \o FeatureList(tokens[k + 1], tags[k + 1]), i |-> k]
    ELSE TokenLoop_firstLabel(tokens, tags, labels, k + 1,
             out \o WriteTokenLine(tl \o FeatureList(tokens[k + 1], tags[k + 1])
                                      \o <<PyStr(labels[1])>>),
             <<>>)

RECURSIVE TokenLoop(_, _, _, _, _, _)
TokenLoop(tokens, tags, labels, k, out, tl) ==
    IF k >= Len(tokens)
    THEN [crashed |-> FALSE, out |-> out, tempList |-> tl, i |-> k]
    ELSE IF k >= Len(tags)
    THEN [crashed |-> TRUE, out |-> out,
          tempList |-> Append(tl, PyStr(tokens[k + 1])), i |-> k]
    ELSE IF k >= Len(labels)
    THEN [crashed |-> TRUE, out |-> out,
          tempList |-> tl \o FeatureList(tokens[k + 1], tags[k + 1]), i |-> k]
    ELSE TokenLoop(tokens, tags, labels, k + 1,
             out \o WriteTokenLine(tl \o FeatureList(tokens[k + 1], tags[k + 1])
                                      \o <<PyStr(labels[k + 1])>>),
             <<>>)

-----------------------------------------------------------------------------
(* The input files the model runs the script on.                           *)

MaxLines == 5
MaxTokLen == 4

\* lines of a tagged corpus: the empty line, a token line, a line with three
\* fields and a line with one
StreamLines == {"\n", "IL-2\tB\n", "gene I x\n", "T\n"}

StreamFiles == UNION {[1..n -> StreamLines] : n \in 0..MaxLines}

RECURSIVE StringsOver(_, _)
StringsOver(alphabet, n) ==
    IF n = 0 THEN {""}
    ELSE LET shorter == StringsOver(alphabet, n - 1)
         IN  shorter \cup {s \o c : s \in shorter, c \in alphabet}

\* an upper-case letter, two lower-case letters, a digit, the underscore, a hyphen
ShapeAlphabet == {"A", "b", "d", "1", "_", "-"}
\* the letters of "rna" and "il-", in mixed case
LexAlphabet == {"r", "N", "a", "I", "l", "-"}

LexCorpus ==
    {"alpha", "Beta", "GAMMA", "delta", "epsilon", "zeta", "theta", "kappa", "lambda",
     "RNA", "mRNA", "T-cell", "cells", "gene", "Genes", "Jurkat", "Jurkat-1",
     "transcription", "factor", "NF-kappaB", "protein", "monocyte", "nuclear",
     "integrin", "macrophage", "IL-2", "il2", "the", "of", "p53", "abcd", "abc",
     "ABC", "abcde", "ABCDE", "Abc123!", "(CD28)", "[3H]", "a,b", "a:b", "a;b", "a\\b"}

TokenUniverse ==
    (StringsOver(ShapeAlphabet, MaxTokLen) \cup StringsOver(LexAlphabet, MaxTokLen)
        \cup LexCorpus) \ {""}

\* one sentence of one token, closed by a boundary line of white space only
TokenFiles == {<<tok \o "\tO\n", " \n">> : tok \in TokenUniverse}

InputFiles == StreamFiles \cup TokenFiles

-----------------------------------------------------------------------------
(* The main part of the program.                                           *)

Init ==
    /\ inFileGenia \in InputFiles
    /\ pos = 0
    /\ oFileTrain = ""
    /\ sentenceList = <<>>
    /\ IOBList = <<>>
    /\ tempList = <<>>
    /\ POSTagsList = <<>>
    /\ i = 0
    /\ numSentences = 0
    /\ pc = "running"

\* inputTokenEntity = line.split() for the line the loop is at
inputTokenEntity == Split(inFileGenia[pos + 1])

\* end of the boundary branch: the blank line, the buffers flushed, the counter
FinishSentence_skipEmpty(out, tokens, labels, n) ==
    [out |-> IF tokens = <<>> THEN out ELSE out \o "\n",
     sentenceList |-> <<>>, IOBList |-> <<>>, numSentences |-> n + 1]

FinishSentence_keepLabels(out, tokens, labels, n) ==
    [out |-> out \o "\n", sentenceList |-> <<>>, IOBList |-> labels,
     numSentences |-> n + 1]

FinishSentence(out, tokens, labels, n) ==
    [out |-> out \o "\n", sentenceList |-> <<>>, IOBList |-> <<>>,
     numSentences |-> n + 1]

\* The boundary branch (len(inputTokenEntity) == 0) with a tagger whose
\* possible results for the buffered tokens are taggings.
ProcessBoundary(taggings) ==
    /\ pc = "running"
    /\ pos < Len(inFileGenia)
    /\ Len(inputTokenEntity) = 0
    /\ \E tagged \in taggings :
         LET tags == getPOSTags(tagged)
             r == TokenLoop(sentenceList, tags, IOBList, 0, oFileTrain, tempList)
             f == FinishSentence(r.out, sentenceList, IOBList, numSentences)
         IN  /\ pos' = pos + 1
             /\ POSTagsList' = tags
             /\ i' = r.i
             /\ tempList' = r.tempList
             /\ IF r.crashed
                THEN /\ pc' = "crashed"
                     /\ oFileTrain' = r.out
                     /\ UNCHANGED <<sentenceList, IOBList, numSentences>>
                ELSE /\ pc' = pc
                     /\ oFileTrain' = f.out
                     /\ sentenceList' = f.sentenceList
                     /\ IOBList' = f.IOBList
                     /\ numSentences' = f.numSentences
    /\ UNCHANGED inFileGenia

ReadBoundary == ProcessBoundary(nltk_pos_tag(sentenceList))

ReadBoundaryAnyTagger == ProcessBoundary(unaligned_pos_tag(sentenceList))

\* a line with one field skipped instead of indexed
AppendRecord_skipOneField ==
    /\ pc = "running"
    /\ pos < Len(inFileGenia)
    /\ Len(inputTokenEntity) # 0
    /\ pos' = pos + 1
    /\ IF Len(inputTokenEntity) < 2
       THEN UNCHANGED <<sentenceList, IOBList>>
       ELSE /\ sentenceList' = Append(sentenceList, inputTokenEntity[1])
            /\ IOBList' = Append(IOBList, inputTokenEntity[2])
    /\ UNCHANGED <<inFileGenia, oFileTrain, tempList, POSTagsList, i, numSentences, pc>>

\* The else branch: the token is appended, then the label; inputTokenEntity[1]
\* raises IndexError on a line with one field, after the token was appended.
AppendRecord ==
    /\ pc = "running"
    /\ pos < Len(inFileGenia)
    /\ Len(inputTokenEntity) # 0
    /\ pos' = pos + 1
    /\ sentenceList' = Append(sentenceList, inputTokenEntity[1])
    /\ IF Len(inputTokenEntity) < 2
       THEN pc' = "crashed" /\ UNCHANGED IOBList
       ELSE pc' = pc /\ IOBList' = Append(IOBList, inputTokenEntity[2])
    /\ UNCHANGED <<inFileGenia, oFileTrain, tempList, POSTagsList, i, numSentences>>

\* the buffered sentence written out at the end of the input
EndOfInput_flush ==
    /\ pc = "running"
    /\ pos = Len(inFileGenia)
    /\ pc' = "done"
    /\ \E tagged \in nltk_pos_tag(sentenceList) :
         oFileTrain' = TokenLoop(sentenceList, getPOSTags(tagged), IOBList, 0,
                                 oFileTrain, tempList).out
    /\ UNCHANGED <<inFileGenia, pos, sentenceList, IOBList, tempList, POSTagsList,
                   i, numSentences>>

\* The loop ends with the input; the files are closed.  Nothing is written.
EndOfInput ==
    /\ pc = "running"
    /\ pos = Len(inFileGenia)
    /\ pc' = "done"
    /\ UNCHANGED <<inFileGenia, pos, oFileTrain, sentenceList, IOBList, tempList,
                   POSTagsList, i, numSentences>>

Next == ReadBoundary \/ AppendRecord \/ EndOfInput

Spec == Init /\ [][Next]_vars

NextAnyTagger == ReadBoundaryAnyTagger \/ AppendRecord \/ EndOfInput

SpecAnyTagger == Init /\ [][NextAnyTagger]_vars

-----------------------------------------------------------------------------
(* Reading the files back: what the properties below are stated on.        *)

\* the pieces of s from position start on, cut at the positions in seps
RECURSIVE PiecesAt(_, _, _)
PiecesAt(s, seps, start) ==
    IF seps = {} THEN <<SubSeq(s, start, Len(s))>>
    ELSE LET k == CHOOSE x \in seps : \A y \in seps : x <= y
         IN  <<SubSeq(s, start, k - 1)>> \o PiecesAt(s, seps \ {k}, k + 1)

\* the pieces of s between occurrences of the character sep (the last one included)
Pieces(sep, s) == PiecesAt(s, {k \in 1..Len(s) : CharAt(s, k) = sep}, 1)

\* the lines of a file text that are complete (ended by a newline)
CompleteLines(text) ==
    LET p == Pieces("\n", text) IN SubSeq(p, 1, Len(p) - 1)

\* the text after the last newline of a file text
PartialLine(text) ==
    LET p == Pieces("\n", text) IN p[Len(p)]

\* the tab-separated fields of an output line
Fields(line) == Pieces("\t", line)

\* The blocks of a sequence of items, each closed by an empty item (a blank
\* line, a record without fields); items after the last empty one are in no block.
RECURSIVE BlocksFrom(_, _)
BlocksFrom(items, cur) ==
    IF Len(items) = 0 THEN <<>>
    ELSE IF Len(Head(items)) = 0
         THEN <<cur>> \o BlocksFrom(Tail(items), <<>>)
         ELSE BlocksFrom(Tail(items), Append(cur, Head(items)))

\* the items after the last empty item
RECURSIVE TrailingFrom(_, _)
TrailingFrom(items, cur) ==
    IF Len(items) = 0 THEN cur
    ELSE IF Len(Head(items)) = 0
         THEN TrailingFrom(Tail(items), <<>>)
         ELSE TrailingFrom(Tail(items), Append(cur, Head(items)))

\* positions of the empty and of the non-empty items of a sequence
EmptyAt(seq) == {k \in 1..Len(seq) : Len(seq[k]) = 0}
NonEmptyAt(seq) == {k \in 1..Len(seq) : Len(seq[k]) # 0}

\* the position in seq of its m-th non-empty item
NthNonEmpty(seq, m) ==
    LET S == NonEmptyAt(seq)
    IN  CHOOSE k \in S : Cardinality({j \in S : j < k}) = m - 1

\* number of empty items between the m-th non-empty item of seq and the next one
EmptyAfterNth(seq, m) == NthNonEmpty(seq, m + 1) - NthNonEmpty(seq, m) - 1

\* the records read so far, each the fields of its line
Consumed == [k \in 1..pos |-> Split(inFileGenia[k])]

\* the lines of the output file: blank lines and token lines
OutLines == CompleteLines(oFileTrain)

\* every record of recs is a boundary record or has at least two fields
WellFormed(recs) == \A k \in 1..Len(recs) : Len(recs[k]) # 1

\* the file text holds whole sentence blocks only: no line after the last blank
\* line, no unfinished line
WholeBlocks(text) ==
    /\ TrailingFrom(CompleteLines(text), <<>>) = <<>>
    /\ PartialLine(text) = ""

-----------------------------------------------------------------------------
(* C1: with well-formed records and a tagger that returns one tag per      *)
(* token, the output holds one block per sentence closed so far, in input  *)
(* order; the block of a sentence has one line per token, the k-th line    *)
(* starting with the k-th token and ending with the k-th label; nothing    *)
(* else is in the file.                                                    *)
C1_SentenceLabelAlignment ==
    LET recs == Consumed
        ins == BlocksFrom(recs, <<>>)
        outs == BlocksFrom(OutLines, <<>>)
    IN  WellFormed(recs) =>
            /\ Len(outs) = Len(ins)
            /\ WholeBlocks(oFileTrain)
            /\ \A b \in 1..Len(ins) :
                 /\ Len(outs[b]) = Len(ins[b])
                 /\ \A k \in 1..Len(ins[b]) :
                      LET f == Fields(outs[b][k])
                      IN  /\ f[1] = ins[b][k][1]
                          /\ f[Len(f)] = ins[b][k][2]

\* two sentences of different tokens and labels written, in input order
C1_Witness ==
    LET recs == Consumed
        ins == BlocksFrom(recs, <<>>)
    IN  /\ pc = "done"
        /\ WellFormed(recs)
        /\ Len(ins) = 2
        /\ Len(ins[1]) = 1
        /\ Len(ins[2]) = 1
        /\ ins[1][1][1] # ins[2][1][1]
        /\ ins[1][1][2] # ins[2][1][2]
        /\ Len(OutLines) = 4

-----------------------------------------------------------------------------
(* C2 as stated: every non-blank line of the output has exactly 22         *)
(* tab-separated fields.                                                   *)
C2_TwentyTwoFields ==
    LET lines == OutLines
    IN  \A k \in NonEmptyAt(lines) : Len(Fields(lines[k])) = 22

(* C2 amended: every non-blank line of the output has exactly 23           *)
(* tab-separated fields (token, POS tag, 9 orthographic booleans, word     *)
(* shape, 9 lexical booleans, standalone-capital boolean, label).          *)
C2_TwentyThreeFields ==
    LET lines == OutLines
    IN  \A k \in NonEmptyAt(lines) : Len(Fields(lines[k])) = 23

\* the run is over and a token line has been written
C2_Witness == pc = "done" /\ NonEmptyAt(OutLines) # {}

-----------------------------------------------------------------------------
(* The token lines of the output, each as its sequence of fields.          *)
OutTokenFields ==
    LET lines == OutLines
    IN  {Fields(lines[k]) : k \in NonEmptyAt(lines)}

HasDigit(s) == \E k \in 1..Len(s) : CharAt(s, k) \in DigitClass

(* C3 as stated: the word shape written for a token (field 12) is left     *)
(* unchanged by getWordShape: getWordShape(getWordShape(x)) =              *)
(* getWordShape(x).                                                        *)
C3_ShapeIdempotent ==
    \A f \in OutTokenFields : getWordShape(f[12]) = f[12]

(* C3 amended: getWordShape(getWordShape(x)) = getWordShape(x) for every   *)
(* token x that contains no digit.                                         *)
C3_ShapeIdempotentWithoutDigits ==
    \A f \in OutTokenFields : ~HasDigit(f[1]) => getWordShape(f[12]) = f[12]

\* the shape of a token of four lower-case letters, one of them d, was written
C3_Witness ==
    \E f \in OutTokenFields :
        /\ Len(f[1]) = 4
        /\ \A j \in 1..4 : CharAt(f[1], j) \in LowerClass
        /\ Search("d", f[1])
        /\ f[12] = "aaa"

-----------------------------------------------------------------------------
(* C4 as stated: between the last token line of a sentence and the first   *)
(* token line of the next there is exactly one blank line, i.e. two token  *)
(* lines that follow each other are separated by at most one blank line.   *)
C4_OneBlankLineBetweenSentences ==
    LET lines == OutLines
    IN  \A m \in 1..(Cardinality(NonEmptyAt(lines)) - 1) : EmptyAfterNth(lines, m) <= 1

(* C4 amended: the number of blank lines between the last token line of a  *)
(* sentence and the first token line of the next equals the number of      *)
(* boundary records between these tokens in the input: one blank line per  *)
(* boundary record, also for boundary records at the start of the input.   *)
C4_OneBlankLinePerBoundary ==
    LET lines == OutLines
        recs == Consumed
        n == Cardinality(NonEmptyAt(lines))
    IN  /\ \A m \in 1..(n - 1) : EmptyAfterNth(lines, m) = EmptyAfterNth(recs, m)
        /\ n >= 1 => NthNonEmpty(lines, 1) = NthNonEmpty(recs, 1)

\* two boundary records between two sentences, and two blank lines written
C4_Witness ==
    LET lines == OutLines
        recs == Consumed
    IN  /\ Cardinality(NonEmptyAt(lines)) = 2
        /\ EmptyAfterNth(recs, 1) = 2
        /\ EmptyAfterNth(lines, 1) = 2

-----------------------------------------------------------------------------
(* C5: when the input ends with token records and no boundary record after *)
(* them, the run ends normally (files closed), the tokens of that last     *)
(* sentence are still in the buffer, no line was written for them (the     *)
(* file holds the blocks of the sentences closed before and nothing else)  *)
(* and the counter counts only the closed sentences.                       *)
C5_DanglingSentenceDropped ==
    LET recs == Consumed
        ins == BlocksFrom(recs, <<>>)
        last == TrailingFrom(recs, <<>>)
        outs == BlocksFrom(OutLines, <<>>)
    IN  (pos = Len(inFileGenia) /\ WellFormed(recs) /\ Len(last) > 0) =>
            /\ pc \in {"running", "done"}
            /\ pc = "done" =>
                 /\ sentenceList = [k \in 1..Len(last) |-> last[k][1]]
                 /\ Len(outs) = Len(ins)
                 /\ \A b \in 1..Len(ins) : Len(outs[b]) = Len(ins[b])
                 /\ WholeBlocks(oFileTrain)
                 /\ numSentences = Len(ins)

\* the run is over, a sentence was written and another is left in the buffer
C5_Witness ==
    /\ pc = "done"
    /\ WellFormed(Consumed)
    /\ Len(TrailingFrom(Consumed, <<>>)) > 0
    /\ numSentences >= 1
    /\ NonEmptyAt(OutLines) # {}

-----------------------------------------------------------------------------
-----------------------------------------------------------------------------
(* C7: a record with exactly one field ends the run: it is the last record *)
(* read, the run has crashed, no line of the sentence being accumulated is *)
(* in the output (the file holds only the blocks of the sentences closed   *)
(* before); and whenever the run can go on to finalize a sentence the      *)
(* token buffer and the label buffer have the same length.                 *)
C7_OneFieldRecordIsFatal ==
    LET recs == Consumed
    IN  /\ \A k \in 1..pos :
             Len(recs[k]) = 1 =>
                /\ k = pos
                /\ pc = "crashed"
                /\ WholeBlocks(oFileTrain)
                /\ Len(BlocksFrom(OutLines, <<>>)) = Len(BlocksFrom(recs, <<>>))
                /\ numSentences = Len(BlocksFrom(recs, <<>>))
        /\ pc = "running" => Len(sentenceList) = Len(IOBList)

\* a one-field record was read after a sentence was written and a token buffered
C7_Witness ==
    /\ pos >= 4
    /\ Len(Consumed[pos]) = 1
    /\ Len(TrailingFrom(Consumed, <<>>)) = 2
    /\ numSentences = 1
    /\ Cardinality(NonEmptyAt(OutLines)) = 1
    /\ Len(sentenceList) = Len(IOBList) + 1

-----------------------------------------------------------------------------
(* C8: in every token line the "any lexical" field (21) is 1 exactly when  *)
(* one of the eight lexical fields before it (13 to 20) is 1; it is 1 for  *)
(* "protein", "monocyte" and "IL-2" and 0 for "the".                       *)
C8_AnyLexIsOrOfEight ==
    \A f \in OutTokenFields :
        /\ f[21] \in {"0", "1"}
        /\ f[21] = "1" <=> \E j \in 13..20 : f[j] = "1"
        /\ f[1] \in {"protein", "monocyte", "IL-2"} => f[21] = "1"
        /\ f[1] = "the" => f[21] = "0"

\* the line of IL-2 was written: common-string field and any-lexical field both 1
C8_Witness ==
    \E f \in OutTokenFields : f[1] = "IL-2" /\ f[20] = "1" /\ f[21] = "1"

-----------------------------------------------------------------------------
(* The word shape computed in one pass over the token: a maximal run of n  *)
(* lower-case letters gives min(n, 3) times a, an upper-case letter gives  *)
(* A, a digit gives d, the underscore stays, any other character gives _.  *)
RECURSIVE ShapeByRuns(_, _)
ShapeByRuns(s, run) ==
    IF s = "" THEN ""
    ELSE LET c == CharAt(s, 1)
         IN  IF c \in LowerClass
             THEN (IF run < 3 THEN "a" ELSE "") \o ShapeByRuns(Tail(s), run + 1)
             ELSE (IF c \in UpperClass THEN "A"
                   ELSE IF c \in DigitClass THEN "d"
                   ELSE "_") \o ShapeByRuns(Tail(s), 0)

(* C9: the word shape written for a token is the result of the five        *)
(* rewrites in order: runs of 1 to 3 lower-case letters keep their length, *)
(* longer ones become aaa, upper-case runs are not collapsed, the shape    *)
(* never holds four a in a row; abcd gives aaa, ABC gives AAA, Jurkat-1    *)
(* gives Aaaa_d and the empty string gives the empty string.               *)
C9_ShapeRewrites ==
    /\ getWordShape("") = ""
    /\ \A f \in OutTokenFields :
         /\ f[12] = ShapeByRuns(f[1], 0)
         /\ ~Search("aaaa", f[12])
         /\ f[1] = "abcd" => f[12] = "aaa"
         /\ f[1] = "ABC" => f[12] = "AAA"
         /\ f[1] = "Jurkat-1" => f[12] = "Aaaa_d"

\* the shape of Jurkat-1 was written
C9_Witness ==
    \E f \in OutTokenFields : f[1] = "Jurkat-1" /\ f[12] = "Aaaa_d"

-----------------------------------------------------------------------------
(* C10: when the run has not crashed and the record just read is a         *)
(* boundary record, the token buffer, the label buffer and tempList are    *)
(* empty and numSentences equals the number of boundary records read and   *)
(* the number of blank lines written, also when the buffer was empty.      *)
C10_BuffersEmptyAfterBoundary ==
    (pc # "crashed" /\ pos > 0 /\ Len(Split(inFileGenia[pos])) = 0) =>
        /\ sentenceList = <<>>
        /\ IOBList = <<>>
        /\ tempList = <<>>
        /\ numSentences = Cardinality(EmptyAt(Consumed))
        /\ numSentences = Cardinality(EmptyAt(OutLines))

\* a boundary record read with an empty buffer, after a sentence with a token
C10_Witness ==
    /\ pc = "running"
    /\ pos >= 3
    /\ Len(Consumed[pos]) = 0
    /\ Len(Consumed[pos - 1]) = 0
    /\ Len(Consumed[pos - 2]) >= 2
    /\ numSentences = 2
    /\ Cardinality(EmptyAt(OutLines)) = 2
    /\ Cardinality(NonEmptyAt(OutLines)) = 1

=============================================================================
